---- MODULE Spec2Model ----
(***************************************************************************)
(* A model of @glidemq/hono: the queue registry (QueueRegistryImpl), the   *)
(* reference-counted QueueEvents multiplexer of the events route, the live *)
(* and the polling SSE sessions, the glideMQ middleware factory and the    *)
(* guard of the glideMQApi sub-router.                                     *)
(***************************************************************************)
EXTENDS Integers, Sequences, FiniteSets, TLC

\* ------------------------------------------------------------------ bounds

\* How many ManagedQueue entries the model lets one registry create.
MaxHandles == 4

\* How many QueueEvents objects the model lets the multiplexer construct.
MaxSources == 3

\* How many SSE requests the model serves.
MaxSessions == 2

\* How many direct acquire/release calls the multiplexer specification makes.
MaxMuxOps == 6

\* How many writeSSE calls beyond the sessions' first heartbeats the model
\* waits for before it stops the heartbeats and the events of live sessions.
MaxFrames == 1

\* How many writeSSE calls the model lets a polling session make.
MaxPollFrames == 2

\* The highest job count the model lets a queue state reach.
MaxCount == 1

\* The same budget as MaxFrames when the model serves one live session
\* only.
MaxSoloFrames == 2

\* How many keys the config.queues objects given to Object.keys have.
MaxKeys == 4

\* How many times names() is called on one of them.
MaxListCalls == 2

\* How many API requests the model sends through one middleware.
MaxRequests == 3

\* ------------------------------------------------------- configuration

\* The keys of config.queues, in definition order, as in the tests'
\* { emails: { processor }, reports: {} }.
OwnNames == <<"emails", "reports">>

OwnKeys == {OwnNames[i] : i \in DOMAIN OwnNames}

\* config.queues is a plain object: a property read or an `in` test on it
\* also finds what it inherits from Object.prototype.
ProtoKeys == {"toString"}

\* The names a caller may pass: the configured ones, an inherited property
\* name and a name that is no property at all.
CallNames == OwnKeys \cup ProtoKeys \cup {"billing"}

\* Which configured queues carry a processor.
HasProcessor(name) == name = "emails"

\* The queue configs the constructor may be given (testing, connection).
Configs == [testing : BOOLEAN, connection : BOOLEAN]

NoConfig == [testing |-> FALSE, connection |-> FALSE]

NoHandle == [id |-> 0, worker |-> FALSE]

NoOp ==
  [op |-> "none", name |-> "", result |-> "", handle |-> NoHandle,
   closedAtCall |-> FALSE, completedAtCall |-> FALSE, repeat |-> FALSE,
   created |-> FALSE, issued |-> 0, list |-> <<>>, order |-> <<>>]

\* The keys a config.queues literal may define: two ordinary names and two
\* that are canonical array indices.
KeyPool == {"emails", "reports", "2", "10"}

\* The array index a property key denotes, or -1 for an ordinary key.
ArrayIndex(k) ==
  CASE k = "2" -> 2
    [] k = "10" -> 10
    [] OTHER -> -1

NoMiddleware == [pc |-> "none", form |-> "", registry |-> 0, constructed |-> 0]

NoAllowList == [restricted |-> FALSE, queues |-> {}]

NoRequest ==
  [n |-> 0, name |-> "", route |-> "", injected |-> 0, status |-> 0,
   handler |-> FALSE, getCalled |-> FALSE, handle |-> NoHandle,
   created |-> FALSE, opened |-> FALSE, error |-> "", body |-> ""]

VARIABLES
  regState,        \* "none" | "live" | "failed": the constructor's outcome
  config,          \* this.config (testing, connection present)
  managed,         \* this.managed: name -> ManagedQueue
  closed,          \* this.closed
  closeAllPc,      \* the first closeAll(): "idle" | "awaiting" | "done"
  closeOps,        \* its closeOps: <<handle id, part>> -> promise state
  closeAllResult,  \* how its promise settled: "" | "resolved" | "rejected"
  nextHandle,      \* the identity of the next ManagedQueue object
  created,         \* history: name -> number of entries created for it
  firstGet,        \* history: name -> the entry its first get returned
  closeCalls,      \* history: <<handle id, part>> -> close() calls made
  completed,       \* history: some closeAll() promise has resolved
  lastOp,          \* the last registry call and what it returned
  subscriptions,   \* the events module's map: name -> {queueEvents, refCount}
  nextSource,      \* the identity of the next QueueEvents object
  sourceState,     \* QueueEvents id -> "none" | "open" | "closing" | "closed"
  sourceCloses,    \* history: QueueEvents id -> close() calls made on it
  lowestRef,       \* history: the lowest refCount a release has stored
  sourceOpts,      \* QueueEvents id -> the options it was built with, and
                   \* history: those of the last acquire that returned it
  opLog,           \* history: the direct acquire/release calls, in order
  sess,            \* the SSE sessions: request -> its handler's state
  jobCounts,       \* the polled TestQueue's job counts: state -> count
  poll,            \* the polling SSE session of createTestingSSE
  mw,              \* the middleware glideMQ(...) returned, if any
  allowed,         \* glideMQApi's allowedQueues (opts.queues)
  lastReq,         \* history: the last API request and its response
  queueKeys,       \* a config.queues object: its keys in definition order
  listed           \* what Object.keys returned for it

regVars ==
  <<regState, config, managed, closed, closeAllPc, closeOps, closeAllResult,
    nextHandle, created, firstGet, closeCalls, completed, lastOp>>

muxVars ==
  <<subscriptions, nextSource, sourceState, sourceCloses, lowestRef,
    sourceOpts, opLog>>

pollVars == <<jobCounts, poll>>

apiVars == <<mw, allowed, lastReq>>

keyVars == <<queueKeys, listed>>

vars == <<regVars, muxVars, sess, pollVars, apiVars, keyVars>>

Parts == {"worker", "queue"}

HandleIds == 1..MaxHandles

EmptyMap == [n \in {} |-> NoHandle]

\* ------------------------------------------------------------ registry

\* A constructor that insisted on a connection even in testing mode.
ConstructorThrowsWithoutConnection(cfg) == ~cfg.connection

\* constructor: throws when neither testing nor a connection is given.
ConstructorThrows(cfg) == ~cfg.testing /\ ~cfg.connection

\* has(name): `name in this.config.queues`.
has(name) == name \in OwnKeys \cup ProtoKeys

\* Integer-like keys in ascending numeric order.
RECURSIVE IndexKeysAscending(_)
IndexKeysAscending(S) ==
  IF S = {} THEN <<>>
  ELSE LET m == CHOOSE k \in S : \A j \in S : ArrayIndex(k) <= ArrayIndex(j)
       IN <<m>> \o IndexKeysAscending(S \ {m})

\* Object.keys(obj) for an object whose own keys were defined in the order
\* `keys`: the integer-like keys first, ascending, then the string keys in
\* the order of their creation.
ObjectKeys(keys) ==
  IndexKeysAscending({keys[i] : i \in {j \in DOMAIN keys :
                                         ArrayIndex(keys[j]) >= 0}})
  \o SelectSeq(keys, LAMBDA k : ArrayIndex(k) < 0)

\* names(): Object.keys(this.config.queues), own keys only.
names == ObjectKeys(OwnNames)

\* this.config.queues[name] is truthy: an own config object, or a function
\* inherited from Object.prototype.
QueueConfigTruthy(name) == name \in OwnKeys \cup ProtoKeys

\* config.processor of the value found: set on emails only; an inherited
\* function has no processor property.
ConfigProcessor(name) == name \in OwnKeys /\ HasProcessor(name)

\* An entry built with a worker whatever the config says.
createEntryAlwaysWorker(id, name) == [id |-> id, worker |-> TRUE]

\* createEntry / createTestEntry: both build { queue, worker } with a worker
\* exactly when config.processor is truthy.
createEntry(id, name) == [id |-> id, worker |-> ConfigProcessor(name)]

createTestEntry(id, name) == [id |-> id, worker |-> ConfigProcessor(name)]

\* A get that did not consult this.managed before creating.
GetBranchNoMemo(cl, mg, name) ==
  IF cl THEN "closed"
  ELSE IF ~QueueConfigTruthy(name) THEN "not_configured"
  ELSE "create"

\* A get that did not check this.closed.
GetBranchNoClosedCheck(cl, mg, name) ==
  IF name \in DOMAIN mg THEN "existing"
  ELSE IF ~QueueConfigTruthy(name) THEN "not_configured"
  ELSE "create"

\* get(name): which branch the call takes.
GetBranch(cl, mg, name) ==
  IF cl THEN "closed"
  ELSE IF name \in DOMAIN mg THEN "existing"
  ELSE IF ~QueueConfigTruthy(name) THEN "not_configured"
  ELSE "create"

\* A closeAll without the early return.
CloseAllNeverReturnsEarly(cl) == FALSE

\* closeAll(): the early return on this.closed.
CloseAllReturnsEarly(cl) == cl

\* The close() calls closeAll makes: worker (if any) and queue of each entry.
CloseTargets(mg) ==
  {<<mg[n].id, "queue">> : n \in DOMAIN mg} \cup
  {<<mg[n].id, "worker">> : n \in {m \in DOMAIN mg : mg[m].worker}}

\* A loop that closed each entry's queue before its worker.
RECURSIVE CloseOrderQueueFirst(_)
CloseOrderQueueFirst(mg) ==
  IF DOMAIN mg = {} THEN <<>>
  ELSE LET n == CHOOSE m \in DOMAIN mg :
                  \A k \in DOMAIN mg : mg[m].id <= mg[k].id
           rest == [k \in DOMAIN mg \ {n} |-> mg[k]]
       IN <<<<mg[n].id, "queue">>>>
          \o (IF mg[n].worker THEN <<<<mg[n].id, "worker">>>> ELSE <<>>)
          \o CloseOrderQueueFirst(rest)

\* The close() calls of closeAll in the order the loop makes them:
\* this.managed.values() iterates in insertion order (the order of
\* creation), and for each entry worker.close() comes before queue.close().
RECURSIVE CloseOrder(_)
CloseOrder(mg) ==
  IF DOMAIN mg = {} THEN <<>>
  ELSE LET n == CHOOSE m \in DOMAIN mg :
                  \A k \in DOMAIN mg : mg[m].id <= mg[k].id
           rest == [k \in DOMAIN mg \ {n} |-> mg[k]]
       IN (IF mg[n].worker THEN <<<<mg[n].id, "worker">>>> ELSE <<>>)
          \o <<<<mg[n].id, "queue">>>>
          \o CloseOrder(rest)

\* An await of Promise.all(closeOps) instead: it throws at the first
\* rejection.
AwaitAll(ops) ==
  IF \E o \in DOMAIN ops : ops[o] = "rejected" THEN "throw"
  ELSE IF \E o \in DOMAIN ops : ops[o] = "pending" THEN "wait"
  ELSE "resume"

\* await Promise.allSettled(closeOps): resumes when every promise has
\* settled, fulfilled or rejected, and never throws.
AwaitAllSettled(ops) ==
  IF \E o \in DOMAIN ops : ops[o] = "pending" THEN "wait" ELSE "resume"

\* new QueueRegistryImpl(cfg) on the registry's own state.
ConstructCall(cfg) ==
  /\ regState = "none"
  /\ config' = cfg
  /\ regState' = IF ConstructorThrows(cfg) THEN "failed" ELSE "live"
  /\ lastOp' = [NoOp EXCEPT !.op = "construct",
                  !.result = IF ConstructorThrows(cfg)
                             THEN "connection is required" ELSE "ok"]
  /\ UNCHANGED <<managed, closed, closeAllPc, closeOps, closeAllResult,
                 nextHandle, created, firstGet, closeCalls, completed>>

Construct(cfg) ==
  /\ ConstructCall(cfg)
  /\ UNCHANGED <<muxVars, sess, pollVars, apiVars, keyVars>>

\* get(name) on the registry's own state.
GetCall(name) ==
  /\ regState = "live"
  /\ LET branch == GetBranch(closed, managed, name)
         entry == IF config.testing THEN createTestEntry(nextHandle, name)
                  ELSE createEntry(nextHandle, name)
         op == [NoOp EXCEPT !.op = "get", !.name = name,
                  !.closedAtCall = closed, !.completedAtCall = completed,
                  !.repeat = (firstGet[name] # NoHandle)]
     IN
     CASE branch = "closed" ->
            /\ lastOp' = [op EXCEPT !.result = "registry is closed"]
            /\ UNCHANGED <<managed, nextHandle, created, firstGet>>
       [] branch = "existing" ->
            /\ lastOp' = [op EXCEPT !.result = "ok", !.handle = managed[name]]
            /\ firstGet' = IF firstGet[name] = NoHandle
                           THEN [firstGet EXCEPT ![name] = managed[name]]
                           ELSE firstGet
            /\ UNCHANGED <<managed, nextHandle, created>>
       [] branch = "not_configured" ->
            /\ lastOp' = [op EXCEPT !.result = "not configured"]
            /\ UNCHANGED <<managed, nextHandle, created, firstGet>>
       [] OTHER ->
            /\ nextHandle <= MaxHandles
            /\ managed' = [n \in DOMAIN managed \cup {name} |->
                             IF n = name THEN entry ELSE managed[n]]
            /\ nextHandle' = nextHandle + 1
            /\ created' = [created EXCEPT ![name] = @ + 1]
            /\ firstGet' = IF firstGet[name] = NoHandle
                           THEN [firstGet EXCEPT ![name] = entry]
                           ELSE firstGet
            /\ lastOp' = [op EXCEPT !.result = "ok", !.handle = entry,
                            !.created = TRUE]
  /\ UNCHANGED <<regState, config, closed, closeAllPc, closeOps,
                 closeAllResult, closeCalls, completed>>

Get(name) ==
  /\ GetCall(name)
  /\ UNCHANGED <<muxVars, sess, pollVars, apiVars, keyVars>>

Has(name) ==
  /\ regState = "live"
  /\ lastOp' = [NoOp EXCEPT !.op = "has", !.name = name,
                  !.closedAtCall = closed,
                  !.result = IF has(name) THEN "true" ELSE "false"]
  /\ UNCHANGED <<regState, config, managed, closed, closeAllPc, closeOps,
                 closeAllResult, nextHandle, created, firstGet, closeCalls,
                 completed>>
  /\ UNCHANGED <<muxVars, sess, pollVars, apiVars, keyVars>>

Names ==
  /\ regState = "live"
  /\ lastOp' = [NoOp EXCEPT !.op = "names", !.closedAtCall = closed,
                  !.result = "ok", !.list = names]
  /\ UNCHANGED <<regState, config, managed, closed, closeAllPc, closeOps,
                 closeAllResult, nextHandle, created, firstGet, closeCalls,
                 completed>>
  /\ UNCHANGED <<muxVars, sess, pollVars, apiVars, keyVars>>

\* A closeAll that also emptied the events module's subscription map.
CloseAllAndSources ==
  /\ regState = "live"
  /\ IF CloseAllReturnsEarly(closed)
     THEN /\ lastOp' = [NoOp EXCEPT !.op = "closeAll", !.result = "ok",
                          !.closedAtCall = closed, !.repeat = TRUE]
          /\ completed' = TRUE
          /\ UNCHANGED <<closed, closeAllPc, closeOps, closeCalls>>
     ELSE /\ closed' = TRUE
          /\ closeOps' = [o \in CloseTargets(managed) |-> "pending"]
          /\ closeCalls' = [o \in DOMAIN closeCalls |->
                              IF o \in CloseTargets(managed)
                              THEN closeCalls[o] + 1 ELSE closeCalls[o]]
          /\ closeAllPc' = "awaiting"
          /\ lastOp' = [NoOp EXCEPT !.op = "closeAll", !.result = "pending",
                          !.closedAtCall = closed,
                          !.issued = Cardinality(CloseTargets(managed)),
                          !.order = CloseOrder(managed)]
          /\ UNCHANGED completed
  /\ UNCHANGED <<regState, config, managed, closeAllResult, nextHandle,
                 created, firstGet>>
  /\ subscriptions' = [n \in {} |-> [queueEvents |-> 0, refCount |-> 0]]
  /\ UNCHANGED <<nextSource, sourceState, sourceCloses, lowestRef,
                 sourceOpts, opLog>>
  /\ UNCHANGED <<sess, pollVars, apiVars, keyVars>>

\* closeAll() up to its await: the early return, or closed = true and one
\* close() on every worker and queue.
CloseAll ==
  /\ regState = "live"
  /\ IF CloseAllReturnsEarly(closed)
     THEN /\ lastOp' = [NoOp EXCEPT !.op = "closeAll", !.result = "ok",
                          !.closedAtCall = closed, !.repeat = TRUE]
          /\ completed' = TRUE
          /\ UNCHANGED <<closed, closeAllPc, closeOps, closeCalls>>
     ELSE /\ closed' = TRUE
          /\ closeOps' = [o \in CloseTargets(managed) |-> "pending"]
          /\ closeCalls' = [o \in DOMAIN closeCalls |->
                              IF o \in CloseTargets(managed)
                              THEN closeCalls[o] + 1 ELSE closeCalls[o]]
          /\ closeAllPc' = "awaiting"
          /\ lastOp' = [NoOp EXCEPT !.op = "closeAll", !.result = "pending",
                          !.closedAtCall = closed,
                          !.issued = Cardinality(CloseTargets(managed)),
                          !.order = CloseOrder(managed)]
          /\ UNCHANGED completed
  /\ UNCHANGED <<regState, config, managed, closeAllResult, nextHandle,
                 created, firstGet>>
  /\ UNCHANGED <<muxVars, sess, pollVars, apiVars, keyVars>>

\* One close() promise of the engine settles, fulfilled or rejected.
CloseSettle(o, outcome) ==
  /\ closeAllPc = "awaiting"
  /\ o \in DOMAIN closeOps
  /\ closeOps[o] = "pending"
  /\ closeOps' = [closeOps EXCEPT ![o] = outcome]
  /\ UNCHANGED <<regState, config, managed, closed, closeAllPc,
                 closeAllResult, nextHandle, created, firstGet, closeCalls,
                 completed, lastOp>>
  /\ UNCHANGED <<muxVars, sess, pollVars, apiVars, keyVars>>

\* A closeAll that reopened the registry once its closes had settled.
CloseAllFinishReopens ==
  /\ closeAllPc = "awaiting"
  /\ AwaitAllSettled(closeOps) = "resume"
  /\ managed' = EmptyMap
  /\ closeAllResult' = "resolved"
  /\ completed' = TRUE
  /\ closed' = FALSE
  /\ closeAllPc' = "done"
  /\ UNCHANGED <<regState, config, closeOps, nextHandle, created, firstGet,
                 closeCalls, lastOp>>
  /\ UNCHANGED <<muxVars, sess, pollVars, apiVars, keyVars>>

\* closeAll() after its await: this.managed.clear(), unless the await threw.
CloseAllFinish ==
  /\ closeAllPc = "awaiting"
  /\ AwaitAllSettled(closeOps) # "wait"
  /\ IF AwaitAllSettled(closeOps) = "throw"
     THEN /\ closeAllResult' = "rejected"
          /\ UNCHANGED <<managed, completed>>
     ELSE /\ managed' = EmptyMap
          /\ closeAllResult' = "resolved"
          /\ completed' = TRUE
  /\ closeAllPc' = "done"
  /\ UNCHANGED <<regState, config, closed, closeOps, nextHandle, created,
                 firstGet, closeCalls, lastOp>>
  /\ UNCHANGED <<muxVars, sess, pollVars, apiVars, keyVars>>

\* --------------------------------------------------------- multiplexer

\* The queue names the events route is asked for.
QueueNames == OwnKeys

Sources == 1..MaxSources

NoSource == 0

EmptySubs == [n \in {} |-> [queueEvents |-> NoSource, refCount |-> 0]]

\* The (connection, prefix) pairs acquire is called with: those of two
\* registries in one process.
ConnOpts == {"redisA", "redisB"}

\* registry.getConnection() and registry.getPrefix() of the registry the
\* sessions belong to.
RegistryOpts == "redisA"

NoOpts == [built |-> "", asked |-> ""]

\* An acquire that constructed a new QueueEvents on every call.
acquireQueueEventsNoShare(subs, name, opts, fresh) ==
  [subs |-> [n \in DOMAIN subs \cup {name} |->
               IF n = name
               THEN [queueEvents |-> fresh, refCount |-> 1]
               ELSE subs[n]],
   source |-> fresh, isNew |-> TRUE, asked |-> opts]

\* An acquire that did not count the second and later holders.
acquireQueueEventsNoCount(subs, name, opts, fresh) ==
  IF name \in DOMAIN subs
  THEN [subs |-> subs, source |-> subs[name].queueEvents, isNew |-> FALSE,
        asked |-> opts]
  ELSE [subs |-> [n \in DOMAIN subs \cup {name} |->
                    IF n = name
                    THEN [queueEvents |-> fresh, refCount |-> 1]
                    ELSE subs[n]],
        source |-> fresh, isNew |-> TRUE,
        asked |-> opts]

\* acquireQueueEvents(name, connectionOpts, prefix): the map after the call,
\* the QueueEvents returned and whether it was constructed by this call
\* (fresh is the identity a newly constructed object gets).
acquireQueueEvents(subs, name, opts, fresh) ==
  IF name \in DOMAIN subs
  THEN [subs |-> [subs EXCEPT ![name].refCount = @ + 1],
        source |-> subs[name].queueEvents, isNew |-> FALSE,
        asked |-> opts]
  ELSE [subs |-> [n \in DOMAIN subs \cup {name} |->
                    IF n = name
                    THEN [queueEvents |-> fresh, refCount |-> 1]
                    ELSE subs[n]],
        source |-> fresh, isNew |-> TRUE,
        asked |-> opts]

\* A release that destroyed the entry only below zero (< 0 for <= 0).
releaseQueueEventsLate(subs, name) ==
  IF name \notin DOMAIN subs
  THEN [subs |-> subs, closes |-> NoSource, found |-> FALSE, stored |-> 0]
  ELSE LET count == subs[name].refCount - 1 IN
       IF count < 0
       THEN [subs |-> [n \in DOMAIN subs \ {name} |-> subs[n]],
             closes |-> subs[name].queueEvents, found |-> TRUE,
             stored |-> count]
       ELSE [subs |-> [subs EXCEPT ![name].refCount = count],
             closes |-> NoSource, found |-> TRUE, stored |-> count]

\* A release that closed the QueueEvents at zero but left the entry in the
\* map.
releaseQueueEventsNoDelete(subs, name) ==
  IF name \notin DOMAIN subs
  THEN [subs |-> subs, closes |-> NoSource, found |-> FALSE, stored |-> 0]
  ELSE LET count == subs[name].refCount - 1 IN
       [subs |-> [subs EXCEPT ![name].refCount = count],
        closes |-> IF count <= 0 THEN subs[name].queueEvents ELSE NoSource,
        found |-> TRUE, stored |-> count]

\* A release that removed the entry at zero without closing its QueueEvents.
releaseQueueEventsNoClose(subs, name) ==
  IF name \notin DOMAIN subs
  THEN [subs |-> subs, closes |-> NoSource, found |-> FALSE, stored |-> 0]
  ELSE LET count == subs[name].refCount - 1 IN
       IF count <= 0
       THEN [subs |-> [n \in DOMAIN subs \ {name} |-> subs[n]],
             closes |-> NoSource, found |-> TRUE, stored |-> count]
       ELSE [subs |-> [subs EXCEPT ![name].refCount = count],
             closes |-> NoSource, found |-> TRUE, stored |-> count]

\* releaseQueueEvents(name): the map after the call, the QueueEvents it
\* called close() on (NoSource: none) and the refCount it stored in the
\* entry (found: an entry existed).
releaseQueueEvents(subs, name) ==
  IF name \notin DOMAIN subs
  THEN [subs |-> subs, closes |-> NoSource, found |-> FALSE, stored |-> 0]
  ELSE LET count == subs[name].refCount - 1 IN
       IF count <= 0
       THEN [subs |-> [n \in DOMAIN subs \ {name} |-> subs[n]],
             closes |-> subs[name].queueEvents, found |-> TRUE,
             stored |-> count]
       ELSE [subs |-> [subs EXCEPT ![name].refCount = count],
             closes |-> NoSource, found |-> TRUE, stored |-> count]

\* What an acquire call with result r does to the module's state.
AcquireEffect(r) ==
  /\ r.isNew => nextSource <= MaxSources
  /\ subscriptions' = r.subs
  /\ nextSource' = IF r.isNew THEN nextSource + 1 ELSE nextSource
  /\ sourceState' = IF r.isNew
                    THEN [sourceState EXCEPT ![r.source] = "open"]
                    ELSE sourceState
  /\ sourceOpts' = [sourceOpts EXCEPT ![r.source] =
                      [built |-> IF r.isNew THEN r.asked ELSE @.built,
                       asked |-> r.asked]]
  /\ UNCHANGED <<sourceCloses, lowestRef>>

\* What a release call with result r does to the module's state:
\* queueEvents.close() is started and not awaited.
ReleaseEffect(r) ==
  /\ subscriptions' = r.subs
  /\ sourceState' = IF r.closes # NoSource
                    THEN [sourceState EXCEPT ![r.closes] = "closing"]
                    ELSE sourceState
  /\ sourceCloses' = IF r.closes # NoSource
                     THEN [sourceCloses EXCEPT ![r.closes] = @ + 1]
                     ELSE sourceCloses
  /\ lowestRef' = IF r.found /\ r.stored < lowestRef
                  THEN r.stored ELSE lowestRef
  /\ UNCHANGED <<nextSource, sourceOpts>>

\* A direct call of acquireQueueEvents(name, connection, prefix).
MuxAcquire(name, opts) ==
  /\ Len(opLog) < MaxMuxOps
  /\ LET r == acquireQueueEvents(subscriptions, name, opts, nextSource) IN
       /\ AcquireEffect(r)
       /\ opLog' = Append(opLog, [op |-> "acquire", name |-> name,
                                  source |-> r.source])
  /\ UNCHANGED <<apiVars, keyVars, regVars, sess, pollVars>>

\* A direct call of releaseQueueEvents(name).
MuxRelease(name) ==
  /\ Len(opLog) < MaxMuxOps
  /\ LET r == releaseQueueEvents(subscriptions, name) IN
       /\ ReleaseEffect(r)
       /\ opLog' = Append(opLog, [op |-> "release", name |-> name,
                                  source |-> r.closes])
  /\ UNCHANGED <<apiVars, keyVars, regVars, sess, pollVars>>

\* The promise of a queueEvents.close() settles; .catch(() => {}) swallows a
\* rejection, so either way nothing else happens.
SourceCloseSettle(src) ==
  /\ sourceState[src] = "closing"
  /\ sourceState' = [sourceState EXCEPT ![src] = "closed"]
  /\ UNCHANGED <<apiVars, keyVars, regVars, subscriptions, nextSource,
                 sourceCloses, lowestRef, sourceOpts, opLog, sess,
                 pollVars>>

\* -------------------------------------------------------- live sessions

Sessions == 1..MaxSessions

\* eventTypes of createLiveSSE: one listener is attached for each.
eventTypes ==
  <<"completed", "failed", "progress", "stalled", "active", "waiting">>

\* The events the model lets the engine emit: the first type.
EmittedTypes == {eventTypes[1]}

\* Where the model lets the set-up of a session throw: before the first
\* listener is attached, or after it.
ThrowPoints == {0, 1}

\* The position of an event type in eventTypes.
TypeIndex(type) == CHOOSE i \in DOMAIN eventTypes : eventTypes[i] = type

\* A session: the handler's locals (name, queueEvents source, eventId,
\* running, how many of its listeners are attached), where it stands (pc),
\* and a history of what it did: the writeSSE calls it made (frames), whether
\* it holds a multiplexer reference, how often it called release, whether
\* its loop went on after onAbort ran, whether it wrote after that, whether
\* a write of it failed and whether it wrote after that.
IdleSession ==
  [pc |-> "idle", name |-> "", source |-> NoSource, running |-> FALSE,
   attached |-> 0, holds |-> FALSE, eventId |-> 0, frames |-> <<>>,
   releases |-> 0, resumed |-> FALSE, wroteAfterAbort |-> FALSE,
   failedWrite |-> FALSE, wroteAfterFailure |-> FALSE, lost |-> {}]

\* onAbort ran in session record r: only it sets running to false.
Aborted(r) == r.pc \in {"writing", "sleeping", "done"} /\ ~r.running

\* A writeSSE whose id is String(eventId), the counter left as it is.
WriteSSESameId(r, event) ==
  [r EXCEPT !.frames = Append(@, [id |-> r.eventId, event |-> event])]

\* stream.writeSSE({ event, data, id: String(eventId++) }) in session record
\* r: the call is logged with the id it carries and the counter advances.
WriteSSE(r, event) ==
  [r EXCEPT !.frames = Append(@, [id |-> r.eventId, event |-> event]),
            !.eventId = @ + 1,
            !.wroteAfterAbort = @ \/ Aborted(r),
            !.wroteAfterFailure = @ \/ r.failedWrite]

\* The writeSSE calls made so far beyond each session's first heartbeat; the
\* model lets a heartbeat be written or an event be emitted while they are
\* fewer than MaxFrames.
RECURSIVE FramesBeyondFirst(_)
FramesBeyondFirst(n) ==
  IF n = 0 THEN 0
  ELSE FramesBeyondFirst(n - 1)
         + (IF sess[n].eventId > 0 THEN sess[n].eventId - 1 ELSE 0)

\* The frame budget in force: MaxSoloFrames when only one session is
\* served (the others are marked unused), else MaxFrames.
FrameCap ==
  IF \E s \in Sessions : sess[s].pc = "unused"
  THEN MaxSoloFrames ELSE MaxFrames

\* A finally block that removes the listeners and keeps the reference.
CleanupWithoutRelease(s) ==
  /\ sess' = [sess EXCEPT ![s].pc = "done", ![s].attached = 0]
  /\ UNCHANGED <<subscriptions, nextSource, sourceState, sourceCloses,
                 lowestRef, sourceOpts>>

\* The finally block of createLiveSSE: remove every listener, then
\* releaseQueueEvents(name). The handler has returned: of its record only
\* the name, the source it had and the release stay.
Cleanup(s) ==
  /\ ReleaseEffect(releaseQueueEvents(subscriptions, sess[s].name))
  /\ sess' = [sess EXCEPT ![s] =
                [IdleSession EXCEPT !.pc = "done", !.name = sess[s].name,
                                    !.source = sess[s].source,
                                    !.running = sess[s].running,
                                    !.releases = sess[s].releases + 1]]

\* The streamSSE callback up to its first await, in session record r: attach
\* the listeners, register onAbort, enter the loop and start the first
\* heartbeat write.
Start(r) ==
  WriteSSE([r EXCEPT !.pc = "writing", !.running = TRUE,
                     !.attached = Len(eventTypes)],
           "heartbeat")

\* createLiveSSE(c, registry, name) on the sessions and the multiplexer.
LiveSSECall(s, name) ==
  /\ regState = "live"
  /\ ~config.testing
  /\ sess[s].pc = "idle"
  /\ \A t \in Sessions : t < s => sess[t].pc # "idle"
  /\ IF ~config.connection
     THEN /\ sess' = [sess EXCEPT ![s].pc = "error500", ![s].name = name]
          /\ UNCHANGED <<subscriptions, nextSource, sourceState,
                         sourceCloses, lowestRef, sourceOpts>>
     ELSE LET r == acquireQueueEvents(subscriptions, name, RegistryOpts,
                                    nextSource) IN
            /\ AcquireEffect(r)
            /\ sess' = [sess EXCEPT ![s] =
                          Start([@ EXCEPT !.name = name,
                                          !.source = r.source,
                                          !.holds = TRUE])]
  /\ UNCHANGED <<opLog, jobCounts, poll>>

\* GET /:name/events on a live registry: without a connection the handler
\* answers 500, else it acquires the shared QueueEvents and streamSSE runs
\* the callback up to its first await. Sessions are numbered in the order
\* their requests arrive.
Request(s, name) ==
  /\ LiveSSECall(s, name)
  /\ UNCHANGED <<apiVars, keyVars, regVars>>

\* The same request when the callback throws before its try block: in the
\* queueEvents.on call for listener number k + 1 (k listeners are attached
\* by then). The QueueEvents is acquired and running is true; neither the
\* finally block nor anything else runs for the session.
SetupThrows(s, name, k) ==
  /\ regState = "live"
  /\ ~config.testing
  /\ config.connection
  /\ sess[s].pc = "idle"
  /\ \A t \in Sessions : t < s => sess[t].pc # "idle"
  /\ LET r == acquireQueueEvents(subscriptions, name, RegistryOpts,
                                    nextSource) IN
       /\ AcquireEffect(r)
       /\ sess' = [sess EXCEPT ![s].pc = "crashed", ![s].name = name,
                               ![s].source = r.source, ![s].holds = TRUE,
                               ![s].running = TRUE, ![s].attached = k]
  /\ UNCHANGED <<apiVars, keyVars, regVars, opLog, jobCounts, poll>>

\* The heartbeat write settles: on success the loop sleeps, on failure it
\* breaks and the finally block runs.
WriteDone(s, ok) ==
  /\ sess[s].pc = "writing"
  /\ IF ok
     THEN /\ sess' = [sess EXCEPT ![s].pc = "sleeping",
                                  ![s].resumed = @ \/ Aborted(sess[s])]
          /\ UNCHANGED <<subscriptions, nextSource, sourceState,
                         sourceCloses, lowestRef, sourceOpts>>
     ELSE Cleanup(s)
  /\ UNCHANGED <<apiVars, keyVars, regVars, opLog, jobCounts, poll>>

\* stream.sleep(15_000) returns: while (running) either starts the next
\* heartbeat write or leaves the loop into the finally block.
SleepDone(s) ==
  /\ sess[s].pc = "sleeping"
  /\ IF sess[s].running
     THEN /\ FramesBeyondFirst(MaxSessions) < FrameCap
          /\ sess' = [sess EXCEPT ![s] =
                        WriteSSE([@ EXCEPT !.pc = "writing"], "heartbeat")]
          /\ UNCHANGED <<subscriptions, nextSource, sourceState,
                         sourceCloses, lowestRef, sourceOpts>>
     ELSE Cleanup(s)
  /\ UNCHANGED <<apiVars, keyVars, regVars, opLog, jobCounts, poll>>

\* The client disconnects: the onAbort callback sets running = false.
Abort(s) ==
  /\ sess[s].pc \in {"writing", "sleeping"}
  /\ sess[s].running
  /\ sess' = [sess EXCEPT ![s].running = FALSE]
  /\ UNCHANGED <<apiVars, keyVars, regVars, muxVars, jobCounts, poll>>

\* A source that keeps one listener per event type: the first session's.
ListeningFirstOnly(src, type) ==
  LET all == {s \in Sessions : /\ sess[s].source = src
                               /\ TypeIndex(type) <= sess[s].attached}
  IN {s \in all : \A t \in all : s <= t}

\* The sessions whose listener for an event type is attached to a source.
Listening(src, type) ==
  {s \in Sessions : /\ sess[s].source = src
                    /\ TypeIndex(type) <= sess[s].attached}

\* The handler of createLiveSSE for one emitted event, in session record r:
\* nothing when running is false, else one writeSSE that is not awaited and
\* whose rejection .catch(() => {}) swallows; ok tells whether it will be
\* fulfilled. The id of a frame whose write is rejected is noted in lost.
Handler(r, type, ok) ==
  IF r.running
  THEN [WriteSSE(r, type) EXCEPT !.failedWrite = @ \/ ~ok,
                                 !.lost = IF ok THEN @ ELSE @ \cup {r.eventId}]
  ELSE r

\* The shared QueueEvents emits one event: every listener attached for its
\* type runs, synchronously, one after the other.
Emit(src, type, ok) ==
  LET heard == {s \in Listening(src, type) : sess[s].running} IN
  /\ sourceState[src] = "open"
  /\ heard # {}
  /\ FramesBeyondFirst(MaxSessions) < FrameCap
  /\ sess' = [s \in Sessions |->
                IF s \in Listening(src, type)
                THEN Handler(sess[s], type, ok) ELSE sess[s]]
  /\ UNCHANGED <<apiVars, keyVars, regVars, muxVars, jobCounts, poll>>

\* ----------------------------------------------------- polling sessions

\* The states getJobCounts reports, in the order Object.entries lists them;
\* the model follows the first two of waiting, active, completed, failed,
\* delayed.
CountStates == <<"waiting", "active">>

CountVectors == [DOMAIN CountStates -> 0..MaxCount]

\* lastCounts as createTestingSSE initialises it: every state 0.
ZeroCounts == [i \in DOMAIN CountStates |-> 0]

\* The polling session: the handler's locals (name, running, lastCounts, the
\* counts just read, the position i of the for loop, eventId), where it
\* stands (pc), and a history: the ids of its writeSSE calls (ids), the
\* frames written in the current tick (tickFrames), the baseline that tick
\* started from and the counts the queue had when the session opened, how
\* the tick ended, whether onAbort ran and whether it wrote, started a read
\* or started a sleep after that; for each state the count its last frame
\* carried (reported), and for each frame of the tick that count as it was
\* when the frame was written (tickLast).
IdlePoll ==
  [pc |-> "idle", name |-> "", running |-> FALSE, lastCounts |-> ZeroCounts,
   counts |-> ZeroCounts, i |-> 0, eventId |-> 0, ids |-> <<>>,
   tickFrames |-> <<>>, tickBase |-> ZeroCounts, openCounts |-> ZeroCounts,
   tick |-> "none", ticks |-> 0, aborted |-> FALSE,
   wroteAfterAbort |-> FALSE, readAfterAbort |-> FALSE,
   sleptAfterAbort |-> FALSE, reported |-> ZeroCounts, tickLast |-> <<>>]

\* A for loop that writes a frame for every state, changed or not.
NextChangedAlways(counts, last, i) ==
  IF i \in DOMAIN CountStates THEN i ELSE 0

\* The first position from i on whose count differs from the baseline
\* (count !== prev), or 0 when the for loop finds none.
NextChanged(counts, last, i) ==
  IF \E j \in DOMAIN CountStates : j >= i /\ counts[j] # last[j]
  THEN CHOOSE j \in DOMAIN CountStates :
         /\ j >= i /\ counts[j] # last[j]
         /\ \A k \in DOMAIN CountStates :
              (k >= i /\ counts[k] # last[k]) => j <= k
  ELSE 0

\* The baseline a new session starts from: the code's `lastCounts` literal.
InitialBaseline(current) == ZeroCounts

\* A tick that left lastCounts as it was.
DiffFromKeepsBaseline(r, i) ==
  LET j == NextChanged(r.counts, r.lastCounts, i) IN
  IF j = 0
  THEN [r EXCEPT !.pc = "sleeping", !.i = 0, !.tick = "complete",
                 !.sleptAfterAbort = @ \/ r.aborted]
  ELSE [r EXCEPT !.pc = "writing", !.i = j,
                 !.eventId = @ + 1,
                 !.ids = Append(@, r.eventId),
                 !.tickFrames = Append(@, [state |-> CountStates[j],
                                           count |-> r.counts[j],
                                           prev |-> r.lastCounts[j]]),
                 !.tickLast = Append(@, r.reported[j]),
                 !.reported = [@ EXCEPT ![j] = r.counts[j]],
                 !.wroteAfterAbort = @ \/ r.aborted]

\* The for loop of the poll tick from position i, in session record r: the
\* writeSSE of the next changed state, which is awaited, or when none is
\* left lastCounts = counts and the sleep.
DiffFrom(r, i) ==
  LET j == NextChanged(r.counts, r.lastCounts, i) IN
  IF j = 0
  THEN [r EXCEPT !.pc = "sleeping", !.lastCounts = r.counts, !.i = 0,
                 !.tick = "complete",
                 !.sleptAfterAbort = @ \/ r.aborted]
  ELSE [r EXCEPT !.pc = "writing", !.i = j,
                 !.eventId = @ + 1,
                 !.ids = Append(@, r.eventId),
                 !.tickFrames = Append(@, [state |-> CountStates[j],
                                           count |-> r.counts[j],
                                           prev |-> r.lastCounts[j]]),
                 !.tickLast = Append(@, r.reported[j]),
                 !.reported = [@ EXCEPT ![j] = r.counts[j]],
                 !.wroteAfterAbort = @ \/ r.aborted]

\* The for loop can take its next writeSSE only below the model's frame cap.
DiffEnabled(r, i) ==
  NextChanged(r.counts, r.lastCounts, i) # 0 => r.eventId < MaxPollFrames

\* createTestingSSE(c, registry, name) on the registry and the session.
TestingSSECall(name) ==
  /\ regState = "live"
  /\ config.testing
  /\ poll.pc = "idle"
  /\ GetCall(name)
  /\ poll' = IF lastOp'.result = "ok"
             THEN [poll EXCEPT !.pc = "reading", !.name = name,
                               !.running = TRUE,
                               !.lastCounts = InitialBaseline(jobCounts),
                               !.reported = InitialBaseline(jobCounts),
                               !.openCounts = jobCounts]
             ELSE [poll EXCEPT !.pc = "error500", !.name = name]
  /\ UNCHANGED <<muxVars, sess, jobCounts>>

\* GET /:name/events on a testing registry: registry.get(name), and when it
\* returns, the streamSSE callback up to its first await, the getJobCounts
\* call of the first tick.
PollRequest(name) ==
  /\ TestingSSECall(name)
  /\ UNCHANGED <<apiVars, keyVars>>

\* getJobCounts settles. Rejected: the catch breaks the loop. Fulfilled:
\* `if (!running) break`, else the for loop starts.
PollRead(ok) ==
  /\ poll.pc = "reading"
  /\ LET r == [poll EXCEPT !.counts = jobCounts, !.tickFrames = <<>>,
                           !.tickLast = <<>>,
                           !.tickBase = poll.lastCounts,
                           !.ticks = IF @ < MaxPollFrames THEN @ + 1 ELSE @]
     IN
     IF ~ok THEN poll' = [poll EXCEPT !.pc = "done", !.tick = "read failed"]
     ELSE IF ~poll.running
     THEN poll' = [r EXCEPT !.pc = "done", !.tick = "aborted"]
     ELSE /\ DiffEnabled(r, 1)
          /\ poll' = DiffFrom(r, 1)
  /\ UNCHANGED <<apiVars, keyVars, regVars, muxVars, sess, jobCounts>>

\* A tick that goes on with the next state when a write was rejected.
PollWriteDoneIgnoresFailure(ok) ==
  /\ poll.pc = "writing"
  /\ DiffEnabled(poll, poll.i + 1)
  /\ poll' = [DiffFrom(poll, poll.i + 1) EXCEPT
               !.tick = IF ok THEN @ ELSE "write failed"]
  /\ UNCHANGED <<apiVars, keyVars, regVars, muxVars, sess, jobCounts>>

\* The awaited writeSSE of a counts frame settles. Rejected: the catch
\* breaks the loop. Fulfilled: the for loop goes on with the next state.
PollWriteDone(ok) ==
  /\ poll.pc = "writing"
  /\ IF ~ok THEN poll' = [poll EXCEPT !.pc = "done", !.tick = "write failed"]
     ELSE /\ DiffEnabled(poll, poll.i + 1)
          /\ poll' = DiffFrom(poll, poll.i + 1)
  /\ UNCHANGED <<apiVars, keyVars, regVars, muxVars, sess, jobCounts>>

\* stream.sleep(1_000) returns: while (running) calls getJobCounts again or
\* ends the session.
PollSleepDone ==
  /\ poll.pc = "sleeping"
  /\ poll' = IF poll.running
             THEN [poll EXCEPT !.pc = "reading", !.tick = "reading",
                               !.readAfterAbort = @ \/ poll.aborted]
             ELSE [poll EXCEPT !.pc = "done"]
  /\ UNCHANGED <<apiVars, keyVars, regVars, muxVars, sess, jobCounts>>

\* The client disconnects: the onAbort callback sets running = false.
PollAbort ==
  /\ poll.pc \in {"reading", "writing", "sleeping"}
  /\ poll.running
  /\ poll' = [poll EXCEPT !.running = FALSE, !.aborted = TRUE]
  /\ UNCHANGED <<apiVars, keyVars, regVars, muxVars, sess, jobCounts>>

\* The engine moves jobs: the count of one state of the polled queue changes.
EngineChange(j, v) ==
  /\ regState = "live"
  /\ config.testing
  /\ jobCounts[j] # v
  /\ jobCounts' = [jobCounts EXCEPT ![j] = v]
  /\ UNCHANGED <<apiVars, keyVars, regVars, muxVars, sess, poll>>

\* ------------------------------------------------- middleware and API

\* The names a request path may carry: those a caller may pass to the
\* registry and one that VALID_QUEUE_NAME rejects.
InvalidNames == {"a.b"}

RequestNames == CallNames \cup InvalidNames

\* The routes of the sub-router the model requests: a REST route whose
\* handler starts with registry.get(name), and the events stream.
Routes == {"counts", "events"}

\* The allow-lists glideMQApi may be given (opts.queues), or none.
AllowLists ==
  {NoAllowList,
   [restricted |-> TRUE, queues |-> {"emails"}],
   [restricted |-> TRUE, queues |-> {"emails", "billing"}]}

\* VALID_QUEUE_NAME.test(name): letters, digits, _ and -, 1 to 128 long.
ValidQueueName(name) == name \notin InvalidNames

\* A middleware that handed each request a registry of its own.
MiddlewareRegistryPerRequest(m) == m.registry + 1

\* The registry the middleware sets on the context: the one its closure
\* captured when glideMQ(...) ran.
MiddlewareRegistry(m) == m.registry

\* A factory that only remembered the config and constructed nothing.
GlideMQLazy(cfg) ==
  /\ mw.pc = "none"
  /\ regState = "none"
  /\ mw' = [pc |-> "built", form |-> "config", registry |-> 1,
            constructed |-> 0]
  /\ UNCHANGED <<regVars, muxVars, sess, pollVars, allowed, lastReq, keyVars>>

\* glideMQ(config): 'queues' in config, so the registry is constructed in
\* the call; when the constructor throws, no middleware is returned.
GlideMQ(cfg) ==
  /\ mw.pc = "none"
  /\ ConstructCall(cfg)
  /\ mw' = IF regState' = "live"
           THEN [pc |-> "built", form |-> "config", registry |-> 1,
                 constructed |-> 1]
           ELSE [pc |-> "threw", form |-> "config", registry |-> 0,
                 constructed |-> 1]
  /\ UNCHANGED <<muxVars, sess, pollVars, allowed, lastReq, keyVars>>

\* glideMQ(registry): the registry the caller constructed is captured.
GlideMQOf ==
  /\ mw.pc = "none"
  /\ regState = "live"
  /\ mw' = [pc |-> "built", form |-> "registry", registry |-> 1,
            constructed |-> 0]
  /\ UNCHANGED <<regVars, muxVars, sess, pollVars, allowed, lastReq, keyVars>>

\* An error handler that put the error's message into the body.
OnErrorLeaks(err) == [status |-> 500, body |-> err]

\* api.onError: whatever was thrown, the fixed body with status 500.
OnError(err) == [status |-> 500, body |-> "Internal server error"]

\* getRegistry(c): the message it throws when no registry is set on the
\* context, "" when it returns the registry.
getRegistry(injected) ==
  IF injected = 0 THEN "GlideMQ middleware not applied" ELSE ""

\* The body guardQueue sends with a status of its own.
GuardBody(status) ==
  CASE status = 400 -> "Invalid queue name"
    [] status = 404 -> "Queue not found or not accessible"
    [] OTHER -> ""

\* What a handler answers when `thrown` is the message of the error it
\* threw ("" when it returned normally): the error goes to onError.
Respond(req, thrown) ==
  IF thrown = "" THEN [req EXCEPT !.status = 200]
  ELSE [req EXCEPT !.status = OnError(thrown).status,
                   !.body = OnError(thrown).body,
                   !.error = thrown]

\* guardQueue: the status it answers with, or 0 when it calls next().
GuardStatus(name) ==
  IF ~ValidQueueName(name) THEN 400
  ELSE IF (allowed.restricted /\ name \notin allowed.queues) \/ ~has(name)
       THEN 404
       ELSE 0

\* The live session an events request would open: the first idle one.
FreeSessions == {s \in Sessions : sess[s].pc = "idle"}

\* One request GET /:name/<route> through the middleware and the
\* sub-router: the middleware sets the registry, guardQueue answers or
\* calls next(), and the route's handler runs up to its response (for the
\* events route, up to the stream's first await). An error thrown by the
\* handler reaches onError, which answers 500.
ApiRequest(name, route) ==
  /\ mw.pc = "built"
  /\ lastReq.n < MaxRequests
  /\ LET req == [NoRequest EXCEPT !.n = lastReq.n + 1, !.name = name,
                   !.route = route, !.injected = MiddlewareRegistry(mw)]
     IN
     IF GuardStatus(name) # 0
     THEN /\ lastReq' = [req EXCEPT !.status = GuardStatus(name),
                           !.body = GuardBody(GuardStatus(name))]
          /\ UNCHANGED <<regVars, muxVars, sess, pollVars>>
     ELSE IF route = "counts"
     THEN /\ GetCall(name)
          /\ \E engineOk \in BOOLEAN :
               lastReq' =
                 Respond([req EXCEPT !.handler = TRUE, !.getCalled = TRUE,
                            !.handle = lastOp'.handle,
                            !.created = lastOp'.created],
                         IF lastOp'.result # "ok" THEN lastOp'.result
                         ELSE IF engineOk THEN "" ELSE "engine failure")
          /\ UNCHANGED <<muxVars, sess, pollVars>>
     ELSE IF config.testing
     THEN /\ TestingSSECall(name)
          /\ lastReq' =
               Respond([req EXCEPT !.handler = TRUE, !.getCalled = TRUE,
                          !.handle = lastOp'.handle,
                          !.created = lastOp'.created,
                          !.opened = (poll'.pc = "reading")],
                       IF lastOp'.result # "ok" THEN lastOp'.result ELSE "")
     ELSE /\ \E s \in FreeSessions :
               /\ LiveSSECall(s, name)
               /\ lastReq' =
                    IF sess'[s].pc = "error500"
                    THEN [req EXCEPT !.handler = TRUE, !.status = 500,
                            !.body = "Connection config required for SSE events"]
                    ELSE [req EXCEPT !.handler = TRUE, !.status = 200,
                            !.opened = sess'[s].holds]
          /\ UNCHANGED regVars
  /\ UNCHANGED <<mw, allowed, keyVars>>

\* The same request in an application that mounted the sub-router without
\* the middleware: nothing is set on the context, and once the name has
\* passed the pattern the guard's getRegistry(c) throws.
BareRequest(name, route) ==
  /\ mw.pc = "none"
  /\ lastReq.n < MaxRequests
  /\ LET req == [NoRequest EXCEPT !.n = lastReq.n + 1, !.name = name,
                   !.route = route]
     IN lastReq' = IF ~ValidQueueName(name)
                   THEN [req EXCEPT !.status = 400, !.body = GuardBody(400)]
                   ELSE Respond(req, getRegistry(req.injected))
  /\ UNCHANGED <<mw, allowed, keyVars, regVars, muxVars, sess, pollVars>>

\* ------------------------------------------------------ specifications

InitRegistry ==
  /\ managed = EmptyMap
  /\ closed = FALSE
  /\ closeAllPc = "idle"
  /\ closeOps = [o \in {} |-> "pending"]
  /\ closeAllResult = ""
  /\ nextHandle = 1
  /\ created = [n \in CallNames |-> 0]
  /\ firstGet = [n \in CallNames |-> NoHandle]
  /\ closeCalls = [o \in HandleIds \X Parts |-> 0]
  /\ completed = FALSE

InitEvents ==
  /\ subscriptions = EmptySubs
  /\ nextSource = 1
  /\ sourceState = [src \in Sources |-> "none"]
  /\ sourceCloses = [src \in Sources |-> 0]
  /\ lowestRef = 1
  /\ sourceOpts = [src \in Sources |-> NoOpts]
  /\ opLog = <<>>
  /\ sess = [s \in Sessions |-> IdleSession]
  /\ poll = IdlePoll

\* No middleware has been built and no request made.
InitMiddleware ==
  /\ mw = NoMiddleware
  /\ lastReq = NoRequest

\* No config.queues object has been listed.
InitKeys ==
  /\ queueKeys = <<>>
  /\ listed = <<>>

\* The config.queues literals: up to MaxKeys distinct keys in any order.
QueueLiterals ==
  {q \in UNION {[1..n -> KeyPool] : n \in 0..MaxKeys} :
     \A i, j \in DOMAIN q : i # j => q[i] # q[j]}

\* Before the registry is constructed.
Init ==
  /\ regState = "none"
  /\ config = NoConfig
  /\ lastOp = NoOp
  /\ InitRegistry
  /\ InitEvents
  /\ jobCounts = ZeroCounts
  /\ InitMiddleware
  /\ allowed = NoAllowList
  /\ InitKeys

\* A live registry has been constructed with a connection.
SessionInit ==
  /\ regState = "live"
  /\ config = [testing |-> FALSE, connection |-> TRUE]
  /\ lastOp = [NoOp EXCEPT !.op = "construct", !.result = "ok"]
  /\ InitRegistry
  /\ InitEvents
  /\ jobCounts = ZeroCounts
  /\ InitMiddleware
  /\ allowed = NoAllowList
  /\ InitKeys

\* A live registry has been constructed and one live session is served.
SoloInit ==
  /\ regState = "live"
  /\ config = [testing |-> FALSE, connection |-> TRUE]
  /\ lastOp = [NoOp EXCEPT !.op = "construct", !.result = "ok"]
  /\ InitRegistry
  /\ subscriptions = EmptySubs
  /\ nextSource = 1
  /\ sourceState = [src \in Sources |-> "none"]
  /\ sourceCloses = [src \in Sources |-> 0]
  /\ lowestRef = 1
  /\ sourceOpts = [src \in Sources |-> NoOpts]
  /\ opLog = <<>>
  /\ sess = [s \in Sessions |->
               IF s = 1 THEN IdleSession
               ELSE [IdleSession EXCEPT !.pc = "unused"]]
  /\ poll = IdlePoll
  /\ jobCounts = ZeroCounts
  /\ InitMiddleware
  /\ allowed = NoAllowList
  /\ InitKeys

\* A live registry has been constructed and get('reports') has
\* instantiated one handle.
ShutdownInit ==
  /\ regState = "live"
  /\ config = [testing |-> FALSE, connection |-> TRUE]
  /\ lastOp = [NoOp EXCEPT !.op = "get", !.name = "reports", !.result = "ok",
                           !.handle = createEntry(1, "reports"),
                           !.created = TRUE]
  /\ managed = [n \in {"reports"} |-> createEntry(1, "reports")]
  /\ closed = FALSE
  /\ closeAllPc = "idle"
  /\ closeOps = [o \in {} |-> "pending"]
  /\ closeAllResult = ""
  /\ nextHandle = 2
  /\ created = [n \in CallNames |-> IF n = "reports" THEN 1 ELSE 0]
  /\ firstGet = [n \in CallNames |->
                   IF n = "reports" THEN createEntry(1, "reports")
                   ELSE NoHandle]
  /\ closeCalls = [o \in HandleIds \X Parts |-> 0]
  /\ completed = FALSE
  /\ InitEvents
  /\ jobCounts = ZeroCounts
  /\ InitMiddleware
  /\ allowed = NoAllowList
  /\ InitKeys

\* A testing registry has been constructed; its queue may hold jobs.
PollInit ==
  /\ regState = "live"
  /\ config = [testing |-> TRUE, connection |-> FALSE]
  /\ lastOp = [NoOp EXCEPT !.op = "construct", !.result = "ok"]
  /\ InitRegistry
  /\ InitEvents
  /\ jobCounts \in CountVectors
  /\ InitMiddleware
  /\ allowed = NoAllowList
  /\ InitKeys

\* names() on a registry built over the literal queueKeys.
ListKeys ==
  /\ Len(listed) < MaxListCalls
  /\ listed' = Append(listed, ObjectKeys(queueKeys))
  /\ UNCHANGED <<queueKeys, regVars, muxVars, sess, pollVars, apiVars>>

\* A config.queues literal has been written; nothing is constructed.
KeysInit ==
  /\ regState = "none"
  /\ config = NoConfig
  /\ lastOp = NoOp
  /\ InitRegistry
  /\ InitEvents
  /\ jobCounts = ZeroCounts
  /\ InitMiddleware
  /\ allowed = NoAllowList
  /\ queueKeys \in QueueLiterals
  /\ listed = <<>>

NamesSpec == KeysInit /\ [][ListKeys]_vars

\* An application has been set up: glideMQApi(opts) is built, no registry
\* and no middleware exist yet.
ApiInit ==
  /\ regState = "none"
  /\ config = NoConfig
  /\ lastOp = NoOp
  /\ InitRegistry
  /\ InitEvents
  /\ jobCounts = ZeroCounts
  /\ InitMiddleware
  /\ allowed \in AllowLists
  /\ InitKeys

ApiNext ==
  \/ \E cfg \in Configs : GlideMQ(cfg)
  \/ \E cfg \in Configs : Construct(cfg)
  \/ GlideMQOf
  \/ \E name \in RequestNames, route \in Routes : ApiRequest(name, route)
  \/ CloseAll
  \/ \E o \in HandleIds \X Parts, outcome \in {"fulfilled", "rejected"} :
       CloseSettle(o, outcome)
  \/ CloseAllFinish

\* The application: one middleware, one sub-router, requests and shutdown.
ApiSpec == ApiInit /\ [][ApiNext]_vars

ErrorNext ==
  \/ ApiNext
  \/ \E name \in RequestNames, route \in Routes : BareRequest(name, route)

\* The same, with requests that arrive while no middleware is applied.
ErrorSpec == ApiInit /\ [][ErrorNext]_vars

Next ==
  \/ \E cfg \in Configs : Construct(cfg)
  \/ \E name \in CallNames : Get(name)
  \/ \E name \in CallNames : Has(name)
  \/ Names
  \/ CloseAll
  \/ \E o \in HandleIds \X Parts, outcome \in {"fulfilled", "rejected"} :
       CloseSettle(o, outcome)
  \/ CloseAllFinish

MuxNext ==
  \/ \E name \in QueueNames, opts \in ConnOpts : MuxAcquire(name, opts)
  \/ \E name \in QueueNames : MuxRelease(name)
  \/ \E src \in Sources : SourceCloseSettle(src)

SessionNext ==
  \/ \E s \in Sessions, name \in QueueNames : Request(s, name)
  \/ \E s \in Sessions, name \in QueueNames, k \in ThrowPoints :
       SetupThrows(s, name, k)
  \/ \E src \in Sources, type \in EmittedTypes, ok \in BOOLEAN :
       Emit(src, type, ok)
  \/ \E s \in Sessions, ok \in BOOLEAN : WriteDone(s, ok)
  \/ \E s \in Sessions : SleepDone(s)
  \/ \E s \in Sessions : Abort(s)
  \/ \E src \in Sources : SourceCloseSettle(src)

\* Live sessions whose set-up succeeds, on quiet queues, and the shutdown
\* of their registry.
ShutdownNext ==
  \/ \E s \in Sessions, name \in QueueNames : Request(s, name)
  \/ \E s \in Sessions, ok \in BOOLEAN : WriteDone(s, ok)
  \/ \E s \in Sessions : SleepDone(s)
  \/ \E s \in Sessions : Abort(s)
  \/ \E src \in Sources : SourceCloseSettle(src)
  \/ CloseAll
  \/ \E o \in HandleIds \X Parts, outcome \in {"fulfilled", "rejected"} :
       CloseSettle(o, outcome)
  \/ CloseAllFinish

\* The steps of live sessions on queues whose engine emits no event.
QuietSessionNext ==
  \/ \E s \in Sessions, name \in QueueNames : Request(s, name)
  \/ \E s \in Sessions, name \in QueueNames, k \in ThrowPoints :
       SetupThrows(s, name, k)
  \/ \E s \in Sessions, ok \in BOOLEAN : WriteDone(s, ok)
  \/ \E s \in Sessions : SleepDone(s)
  \/ \E s \in Sessions : Abort(s)
  \/ \E src \in Sources : SourceCloseSettle(src)

PollNext ==
  \/ \E name \in QueueNames : PollRequest(name)
  \/ \E ok \in BOOLEAN : PollRead(ok)
  \/ \E ok \in BOOLEAN : PollWriteDone(ok)
  \/ PollSleepDone
  \/ PollAbort
  \/ \E j \in DOMAIN CountStates, v \in 0..MaxCount : EngineChange(j, v)

\* The registry and its callers.
Spec == Init /\ [][Next]_vars

\* The registry, with every engine close() promise eventually settling and
\* an awaiting closeAll() eventually resumed.
FairSpec ==
  /\ Init
  /\ [][Next]_vars
  /\ WF_vars(\E o \in HandleIds \X Parts, outcome \in {"fulfilled", "rejected"} :
               CloseSettle(o, outcome))
  /\ WF_vars(CloseAllFinish)

\* The multiplexer under any sequence of direct acquire and release calls.
MuxSpec == Init /\ [][MuxNext]_vars

\* The multiplexer driven by live SSE sessions.
SessionSpec == SessionInit /\ [][SessionNext]_vars

\* Live SSE sessions on quiet queues, whose heartbeat writes eventually
\* settle and whose sleeps eventually return.
FairSessionSpec ==
  /\ SessionInit
  /\ [][QuietSessionNext]_vars
  /\ WF_vars(\E s \in Sessions :
               \/ \E ok \in BOOLEAN : WriteDone(s, ok)
               \/ SleepDone(s))

\* Live SSE sessions while their registry is shut down.
ShutdownSpec == ShutdownInit /\ [][ShutdownNext]_vars

\* One live SSE session, followed for more frames.
SoloSpec == SoloInit /\ [][SessionNext]_vars

\* A polling SSE session on a testing registry.
PollSpec == PollInit /\ [][PollNext]_vars

\* SSE sessions of either kind: live ones on a live registry, a polling one
\* on a testing registry.
StreamSpec ==
  (SessionInit \/ PollInit) /\ [][SessionNext \/ PollNext]_vars

\* ------------------------------------------------------------- claims

\* C1: every successful get(n) of a configured name returns the entry the
\* first get(n) returned, and at most one entry is ever created for n
\* (exactly one once a get(n) has succeeded).
GetReturnsSameHandle ==
  /\ \A n \in OwnKeys : created[n] <= 1
  /\ (lastOp.op = "get" /\ lastOp.name \in OwnKeys /\ lastOp.result = "ok")
       => /\ lastOp.handle = firstGet[lastOp.name]
          /\ created[lastOp.name] = 1

\* C1 witness: emails, instantiated before reports, is got again after
\* reports was instantiated.
GetRepeatedAfterOtherName ==
  /\ lastOp.op = "get" /\ lastOp.name = "emails" /\ lastOp.result = "ok"
  /\ lastOp.repeat
  /\ "reports" \in DOMAIN managed
  /\ "emails" \in DOMAIN managed
  /\ managed["emails"].id < managed["reports"].id

\* C2: a get called after some closeAll() promise has resolved fails with
\* the registry-closed error, whatever the name.
GetAfterCloseAllFails ==
  (lastOp.op = "get" /\ lastOp.completedAtCall)
    => lastOp.result = "registry is closed"

\* C2 witness: get of a previously instantiated name after closeAll is done.
GetInstantiatedAfterCloseAll ==
  /\ lastOp.op = "get" /\ lastOp.completedAtCall
  /\ closeAllPc = "done"
  /\ lastOp.name = "emails"
  /\ created["emails"] = 1

\* C3 (as claimed): get of a name that is not configured fails with the
\* queue-not-configured error in every registry state.
GetUnconfiguredAlwaysNotConfigured ==
  (lastOp.op = "get" /\ lastOp.name \notin OwnKeys)
    => lastOp.result = "not configured"

\* C4: closed never reverts, and a get called while closed is true fails
\* and creates no entry.
ClosedStaysClosed ==
  /\ [][closed => closed']_vars
  /\ []((lastOp.op = "get" /\ lastOp.closedAtCall)
          => /\ lastOp.result = "registry is closed"
             /\ ~lastOp.created
             /\ lastOp.handle = NoHandle)

\* C4 witness: a get on a configured, not yet instantiated name while the
\* first closeAll is still awaiting its closes.
GetWhileCloseAllAwaits ==
  /\ lastOp.op = "get" /\ lastOp.closedAtCall
  /\ lastOp.name = "reports"
  /\ created["reports"] = 0
  /\ closeAllPc = "awaiting"
  /\ \E o \in DOMAIN closeOps : closeOps[o] = "pending"

\* C5: a closeAll() on a closed registry returns without error and issues
\* no close; no worker or queue ever has close() called on it twice.
CloseAllIdempotent ==
  /\ \A o \in HandleIds \X Parts : closeCalls[o] <= 1
  /\ (lastOp.op = "closeAll" /\ lastOp.closedAtCall)
       => lastOp.result = "ok" /\ lastOp.issued = 0

\* C5 witness: a second closeAll() while the closes of the first are
\* outstanding on an entry with a worker.
SecondCloseAllCalled ==
  /\ lastOp.op = "closeAll" /\ lastOp.closedAtCall
  /\ closeAllPc = "awaiting"
  /\ \E h \in HandleIds :
       closeCalls[<<h, "worker">>] = 1 /\ closeCalls[<<h, "queue">>] = 1

\* C6: from the moment closeAll() runs, close() has been called on the
\* queue and the worker (if any) of every entry ever created; closeAll()
\* eventually completes, and when it has, its promise is resolved, closed
\* is true and managed is empty, whichever closes were rejected.
CloseAllAlwaysCompletes ==
  /\ [](closeAllPc # "idle"
          => \A n \in CallNames :
               created[n] > 0
                 => /\ closeCalls[<<firstGet[n].id, "queue">>] >= 1
                    /\ firstGet[n].worker
                         => closeCalls[<<firstGet[n].id, "worker">>] >= 1)
  /\ [](closeAllPc = "done"
          => /\ closeAllResult = "resolved"
             /\ closed
             /\ DOMAIN managed = {})
  /\ (closeAllPc = "awaiting") ~> (closeAllPc = "done")

\* C6 witness: closeAll() is done although one close was rejected and
\* another fulfilled.
CloseAllDoneDespiteFailure ==
  /\ closeAllPc = "done"
  /\ \E o \in DOMAIN closeOps : closeOps[o] = "rejected"
  /\ \E o \in DOMAIN closeOps : closeOps[o] = "fulfilled"

\* C7: construction without testing and without a connection fails with the
\* configuration error and leaves no registry to call; construction with
\* testing and without a connection succeeds.
ConstructionChecksConnection ==
  regState # "none"
    => /\ (~config.testing /\ ~config.connection)
            => /\ regState = "failed"
               /\ lastOp.op = "construct"
               /\ lastOp.result = "connection is required"
       /\ (config.testing /\ ~config.connection) => regState = "live"

\* C7 witness: the constructor threw.
ConstructionFailed ==
  regState = "failed" /\ ~config.testing /\ ~config.connection

\* The direct calls made for queue name n, in order.
NameLog(n) == SelectSeq(opLog, LAMBDA e : e.name = n)

\* C8: when the calls for a name start acquire, acquire, both return the
\* same QueueEvents and refCount is 2; when they go on release, release, the
\* second release closes that QueueEvents, once, and removes the entry; a
\* further release closes nothing and finds no entry; no release ever
\* stores a refCount below 0.
AcquireReleaseScenario ==
  /\ lowestRef >= 0
  /\ \A n \in QueueNames :
       LET L == NameLog(n) IN
       (Len(L) >= 2 /\ L[1].op = "acquire" /\ L[2].op = "acquire")
         => /\ L[1].source = L[2].source
            /\ Len(L) = 2
                 => /\ n \in DOMAIN subscriptions
                    /\ subscriptions[n].refCount = 2
                    /\ subscriptions[n].queueEvents = L[1].source
            /\ (Len(L) >= 4 /\ L[3].op = "release" /\ L[4].op = "release")
                 => /\ L[3].source = NoSource
                    /\ L[4].source = L[1].source
                    /\ sourceCloses[L[1].source] = 1
                    /\ Len(L) = 4 => n \notin DOMAIN subscriptions
                    /\ (Len(L) >= 5 /\ L[5].op = "release")
                         => /\ L[5].source = NoSource
                            /\ Len(L) = 5 => n \notin DOMAIN subscriptions

\* C8 witness: acquire, acquire, release, release, release on one name.
SpuriousThirdRelease ==
  \E n \in QueueNames :
    LET L == NameLog(n) IN
    /\ Len(L) = 5
    /\ L[1].op = "acquire" /\ L[2].op = "acquire"
    /\ L[3].op = "release" /\ L[4].op = "release" /\ L[5].op = "release"

\* A step that is a direct release(n) on an entry whose refCount is 1.
ReleaseToZero(n) ==
  /\ Len(opLog') = Len(opLog) + 1
  /\ opLog'[Len(opLog')].op = "release"
  /\ opLog'[Len(opLog')].name = n
  /\ n \in DOMAIN subscriptions
  /\ subscriptions[n].refCount = 1

\* C9: every entry has refCount >= 1 and a QueueEvents that has not been
\* closed; an entry disappears, and close() is called on its QueueEvents,
\* in exactly the steps in which a release takes its refCount from 1 to 0.
EntryLivesWhileReferenced ==
  /\ [](\A n \in DOMAIN subscriptions :
          /\ subscriptions[n].refCount >= 1
          /\ sourceState[subscriptions[n].queueEvents] = "open"
          /\ sourceCloses[subscriptions[n].queueEvents] = 0)
  /\ [][\A n \in QueueNames :
          /\ (n \in DOMAIN subscriptions /\ n \notin DOMAIN subscriptions')
               <=> ReleaseToZero(n)
          /\ n \in DOMAIN subscriptions
               => LET src == subscriptions[n].queueEvents IN
                  (sourceCloses'[src] # sourceCloses[src])
                    <=> ReleaseToZero(n)]_vars

\* C9 witness: a release has just destroyed an entry that had been shared.
EntryDestroyedByLastRelease ==
  /\ Len(opLog) >= 4
  /\ opLog[Len(opLog)].op = "release"
  /\ opLog[Len(opLog)].source # NoSource
  /\ opLog[Len(opLog)].name \notin DOMAIN subscriptions
  /\ opLog[Len(opLog) - 1].op = "release"
  /\ opLog[Len(opLog) - 1].name = opLog[Len(opLog)].name
  /\ opLog[Len(opLog) - 1].source = NoSource

\* The sessions that have acquired a reference for n and not released it.
Holders(n) == {s \in Sessions : sess[s].holds /\ sess[s].name = n}

\* C10: for every queue name, refCount equals the number of sessions whose
\* acquire has not been matched by their release, and there is no entry
\* when there is none.
RefCountCountsHolders ==
  \A n \in QueueNames :
    IF Holders(n) = {}
    THEN n \notin DOMAIN subscriptions
    ELSE /\ n \in DOMAIN subscriptions
         /\ subscriptions[n].refCount = Cardinality(Holders(n))

\* C10 witness: two sessions acquired emails, one of them has streamed and
\* released, and the entry counts the one that is left.
OneHolderOneGone ==
  /\ Cardinality(Holders("emails")) = 1
  /\ subscriptions["emails"].refCount = 1
  /\ \E s \in Sessions :
       /\ sess[s].pc = "done" /\ sess[s].name = "emails"
       /\ sess[s].source = subscriptions["emails"].queueEvents

\* A step that is a direct acquire(n).
AcquireStep(n) ==
  /\ Len(opLog') = Len(opLog) + 1
  /\ opLog'[Len(opLog')].op = "acquire"
  /\ opLog'[Len(opLog')].name = n

\* C11: the QueueEvents an acquire returns is open and has never had
\* close() called on it; an acquire(n) that follows the release which closed
\* n's QueueEvents constructs a new one, different from the closed one, and
\* stores it with refCount 1.
AcquireNeverVendsClosingSource ==
  [][\A n \in QueueNames :
       AcquireStep(n)
         => LET got == opLog'[Len(opLog')].source
                L == NameLog(n)
            IN /\ sourceCloses'[got] = 0
               /\ sourceState'[got] = "open"
               /\ (Len(L) > 0 /\ L[Len(L)].source # NoSource
                     /\ L[Len(L)].op = "release")
                    => /\ got # L[Len(L)].source
                       /\ sourceState[got] = "none"
                       /\ subscriptions'[n] =
                            [queueEvents |-> got, refCount |-> 1]]_vars

\* C11 witness: acquire(n) has just returned while the close() started by
\* the release before it is still in flight.
AcquireDuringClose ==
  \E n \in QueueNames :
    LET L == NameLog(n) IN
    /\ Len(L) >= 2
    /\ opLog[Len(opLog)] = L[Len(L)]
    /\ L[Len(L)].op = "acquire"
    /\ L[Len(L) - 1].op = "release"
    /\ L[Len(L) - 1].source # NoSource
    /\ sourceState[L[Len(L) - 1].source] = "closing"
    /\ subscriptions[n].queueEvents # L[Len(L) - 1].source

\* A session has ended: its handler returned through the finally block, or
\* its callback threw during set-up.
Ended(s) == sess[s].pc \in {"done", "crashed"}

\* C12: every live session that acquired a multiplexer reference and has
\* ended, on whatever path, has released the reference exactly once.
EndedSessionReleasedOnce ==
  \A s \in Sessions :
    (Ended(s) /\ sess[s].source # NoSource)
      => (sess[s].releases = 1 /\ ~sess[s].holds)

\* Every session that holds a reference for n has had its client disconnect.
AllDisconnected(n) ==
  /\ Holders(n) # {}
  /\ \A s \in Holders(n) : Aborted(sess[s])

\* C13: a live session whose client has disconnected eventually has no
\* listener attached and no reference held; and when every session holding a
\* reference for a queue name has disconnected, eventually the subscription
\* map has no entry for the name, unless a new session asked for it.
DisconnectedEventuallyReleased ==
  /\ \A s \in Sessions :
       Aborted(sess[s])
         ~> (sess[s].pc = "done" /\ sess[s].attached = 0 /\ ~sess[s].holds
               /\ sess[s].releases = 1)
  /\ \A n \in QueueNames :
       AllDisconnected(n)
         ~> (n \notin DOMAIN subscriptions
               \/ \E s \in Holders(n) : ~Aborted(sess[s]))

\* C13 witness: two sessions streamed the same queue, both clients
\* disconnected, both sessions cleaned up and the name has no entry.
AllGoneEntryGone ==
  \E n \in QueueNames :
    /\ n \notin DOMAIN subscriptions
    /\ \A s \in Sessions :
         /\ sess[s].name = n /\ sess[s].pc = "done" /\ Aborted(sess[s])
         /\ sess[s].releases = 1

\* C14: a session whose abort signal is set holds no listener and no
\* reference once it has taken its next step, whatever was in flight when
\* the signal came.
AbortedReleasesAtNextStep ==
  \A s \in Sessions :
    sess[s].resumed => (sess[s].attached = 0 /\ ~sess[s].holds)

\* C15: no session, live or polling, calls writeSSE after its abort
\* callback has run.
NoWriteAfterAbort ==
  /\ \A s \in Sessions : ~sess[s].wroteAfterAbort
  /\ ~poll.wroteAfterAbort

\* The ids of a sequence of frame ids start at 0 and strictly increase.
IdsIncreaseFromZero(ids) ==
  /\ Len(ids) > 0 => ids[1] = 0
  /\ \A i, j \in DOMAIN ids : i < j => ids[i] < ids[j]

\* C16: in every session, live or polling, the frames written carry strictly
\* increasing ids in the order of writing and the first one has id 0; a live
\* session's heartbeats and forwarded events are numbered together.
FrameIdsIncrease ==
  /\ \A s \in Sessions :
       IdsIncreaseFromZero([i \in DOMAIN sess[s].frames |->
                              sess[s].frames[i].id])
  /\ IdsIncreaseFromZero(poll.ids)

\* C16 witness: a live session has written a heartbeat and then a forwarded
\* event.
HeartbeatThenEvent ==
  \E s \in Sessions :
    /\ Len(sess[s].frames) >= 2
    /\ sess[s].frames[1].event = "heartbeat"
    /\ sess[s].frames[2].event # "heartbeat"

\* Session s is streaming: its loop is running and its client is connected.
Streaming(s) == sess[s].pc \in {"writing", "sleeping"} /\ sess[s].running

\* In this step session s wrote a frame for a forwarded event.
ForwardedIn(s) ==
  /\ Len(sess'[s].frames) = Len(sess[s].frames) + 1
  /\ sess'[s].frames[Len(sess'[s].frames)].event # "heartbeat"

\* C17: when an emitted event is forwarded in one session, every session
\* streaming the same queue name writes exactly one frame for it in the same
\* step, and each numbers it with the count of frames it wrote itself.
EachSessionForwardsOnce ==
  [][\A s \in Sessions :
       ForwardedIn(s)
         => \A t \in Sessions :
              (Streaming(t) /\ sess[t].name = sess[s].name)
                => sess'[t].frames =
                     Append(sess[t].frames,
                            [id |-> Len(sess[t].frames),
                             event |-> sess'[s].frames[Len(sess'[s].frames)].event])]_vars

\* C17 witness: two sessions stream the same queue and each has written its
\* heartbeat and one frame for the same event, both with id 1.
TwoSessionsForwarded ==
  \E s, t \in Sessions :
    /\ s # t
    /\ sess[s].name = sess[t].name
    /\ sess[s].source = sess[t].source
    /\ \A u \in {s, t} :
         /\ Len(sess[u].frames) = 2
         /\ sess[u].frames[2].event = eventTypes[1]
         /\ sess[u].frames[2].id = 1

\* C18: a live session one of whose frame writes failed, heartbeat or
\* forwarded event, is not streaming any more: its loop has ended, its
\* listeners are detached and its reference is released.
FailedWriteEndsSession ==
  \A s \in Sessions :
    (sess[s].failedWrite /\ sess[s].pc # "crashed")
      => /\ sess[s].pc \notin {"writing", "sleeping"}
         /\ sess[s].attached = 0
         /\ ~sess[s].holds

\* The positions of the states whose count differs between two readings.
Changed(base, counts) == {j \in DOMAIN CountStates : counts[j] # base[j]}

\* C19: when a poll tick has run to its end, the frames it wrote are as many
\* as the states whose count just read differs from the baseline, none when
\* no count differs, and each changed state has one frame that carries the
\* count read and the baseline count.
TickDeltasMatchChanges ==
  poll.tick = "complete"
    => LET ch == Changed(poll.tickBase, poll.counts) IN
       /\ Len(poll.tickFrames) = Cardinality(ch)
       /\ \A j \in ch :
            \E i \in DOMAIN poll.tickFrames :
              poll.tickFrames[i] = [state |-> CountStates[j],
                                    count |-> poll.counts[j],
                                    prev |-> poll.tickBase[j]]

\* C19 witness: a tick after the first has ended in which exactly one state
\* had changed, and it wrote one frame; the other state kept a non-zero
\* count.
OneChangeOneFrame ==
  /\ poll.tick = "complete"
  /\ poll.ticks >= 2
  /\ Cardinality(Changed(poll.tickBase, poll.counts)) = 1
  /\ Len(poll.tickFrames) = 1
  /\ \E j \in DOMAIN CountStates :
       poll.counts[j] = poll.tickBase[j] /\ poll.counts[j] # 0

\* C20: a polling session starts from the counts its queue has when it
\* opens, and its first tick, reading those same counts, writes no frame.
BaselineIsCountsAtOpen ==
  /\ (poll.pc = "reading" /\ poll.ticks = 0)
       => poll.lastCounts = poll.openCounts
  /\ (poll.ticks = 1 /\ poll.counts = poll.openCounts)
       => poll.tickFrames = <<>>

\* C21: a polling session whose abort callback has run starts no new counts
\* read and no new sleep.
NoReadOrSleepAfterAbort ==
  /\ ~poll.readAfterAbort
  /\ ~poll.sleptAfterAbort

\* A read or a write of the polling session was rejected.
PollFailed(r) == r.tick \in {"read failed", "write failed"}

\* C22: a polling session whose counts read or frame write failed has left
\* its loop by returning, not by an error; it takes no further step, so no
\* further read or write; and the step in which it failed changed neither
\* the registry, nor the subscriptions, nor any other session.
PollFailureEndsSilently ==
  /\ [](PollFailed(poll) => poll.pc = "done")
  /\ [][/\ PollFailed(poll) => poll' = poll
        /\ (PollFailed(poll') /\ ~PollFailed(poll))
             => UNCHANGED <<regVars, muxVars, sess, jobCounts>>]_vars

\* C22 witness: the session wrote a frame and a later read or write of it
\* was rejected.
PollFailedAfterFrame ==
  /\ PollFailed(poll)
  /\ Len(poll.ids) >= 1
  /\ poll.ticks >= 1

\* C23: every handle the registry has created, in live and in testing mode,
\* has a worker exactly when its queue is defined with a processor, and a
\* null worker otherwise.
WorkerIffProcessor ==
  /\ \A n \in DOMAIN managed :
       managed[n].worker <=> (n \in OwnKeys /\ HasProcessor(n))
  /\ \A n \in CallNames :
       created[n] > 0
         => (firstGet[n].worker <=> (n \in OwnKeys /\ HasProcessor(n)))

\* C23 witness: a live registry has created the handle of a queue with a
\* processor and the handle of a queue without one.
BothKindsOfHandle ==
  /\ ~config.testing
  /\ \E n, m \in DOMAIN managed :
       /\ HasProcessor(n) /\ managed[n].worker
       /\ ~HasProcessor(m) /\ ~managed[m].worker

\* C24: in every registry state, each name that has a handle is a
\* configured name.
InstantiatedAreConfigured == DOMAIN managed \subseteq OwnKeys

\* C25: has(name) answers true exactly for the configured names, whatever
\* state the registry is in, and changes nothing in the registry.
HasExactlyConfigured ==
  [](lastOp.op = "has"
       => (lastOp.result = "true" <=> lastOp.name \in OwnKeys))
  /\ [][lastOp'.op = "has"
          => UNCHANGED <<managed, closed, closeAllPc, closeOps, nextHandle,
                         created, closeCalls>>]_vars

\* ------------------------------------------------------------------ C26

\* C26: every names() call returns all configured names in the order they
\* were defined, the same sequence on every call.
NamesInDefinitionOrder ==
  \A i \in DOMAIN listed : listed[i] = queueKeys

\* ------------------------------------------------------------------ C27

\* C27: every request handled by the middleware of one glideMQ(...) call is
\* given the one registry that call captured, the factory constructs at
\* most one registry, and a handle a request obtains is the one the first
\* request for that name instantiated.
SameRegistryEveryRequest ==
  /\ lastReq.n > 0 => /\ lastReq.injected = mw.registry
                      /\ mw.registry # 0
  /\ mw.constructed <= 1
  /\ lastReq.handle # NoHandle => lastReq.handle = firstGet[lastReq.name]

\* A later request was handed the handle an earlier request instantiated.
LaterRequestGotEarlierHandle ==
  /\ lastReq.n >= 2
  /\ lastReq.status = 200
  /\ lastReq.getCalled
  /\ ~lastReq.created
  /\ lastReq.handle = firstGet[lastReq.name]
  /\ lastReq.handle # NoHandle

\* ------------------------------------------------------------------ C28

UnconfiguredAnswered404 ==
  (lastReq.n > 0 /\ lastReq.name \notin OwnKeys)
    => /\ lastReq.status = 404
       /\ ~lastReq.handler
       /\ ~lastReq.getCalled
       /\ ~lastReq.created
       /\ ~lastReq.opened

\* ------------------------------------------------------------------ C30

\* C30: with an allow-list, a request for a configured queue that is not on
\* the list is answered 403 and reaches no handler (registry.get is not
\* called), and a request for a configured queue on the list is served.
AllowListRejects403 ==
  (lastReq.n > 0 /\ allowed.restricted /\ lastReq.name \in OwnKeys)
    => IF lastReq.name \in allowed.queues
       THEN lastReq.handler
       ELSE /\ lastReq.status = 403
            /\ ~lastReq.handler
            /\ ~lastReq.getCalled

\* ------------------------------------------------------------------ C31

\* C31: a request during which an error was thrown (no middleware applied,
\* registry closed, not configured raised by get, engine failure) is
\* answered with status 500 and the body 'Internal server error', and two
\* such requests get the same response whatever their error texts were.
InternalErrorsAnsweredAlike ==
  /\ [](lastReq.error # ""
          => (lastReq.status = 500 /\ lastReq.body = "Internal server error"))
  /\ [][(lastReq.error # "" /\ lastReq'.error # "")
          => (lastReq'.status = lastReq.status
              /\ lastReq'.body = lastReq.body)]_vars

\* A later request found the registry closed: get threw, and the client
\* was sent the fixed response.
ClosedRegistryAnswered500 ==
  /\ lastReq.n >= 2
  /\ lastReq.error = "registry is closed"
  /\ lastReq.status = 500
  /\ lastReq.body = "Internal server error"

\* ------------------------------------------------------------------ C32

\* The handles the registry has ever created: the first get of a name
\* returned each of them.
EverCreated == {firstGet[n] : n \in {m \in CallNames : firstGet[m] # NoHandle}}

\* Calls q of the sequence of close() calls `order` come before calls r.
Before(order, q, r) ==
  \E i, j \in DOMAIN order : i < j /\ order[i] = q /\ order[j] = r

\* C32: the first closeAll() calls close() once on the worker (if there is
\* one) and then on the queue of every handle instantiated so far, makes
\* all these calls before it waits for any of them, and when it completes
\* every handle the registry ever created has had close() called on it.
CloseAllClosesEveryHandle ==
  /\ []((lastOp.op = "closeAll" /\ lastOp.result = "pending")
          => /\ {lastOp.order[i] : i \in DOMAIN lastOp.order}
                  = UNION {{<<h.id, "queue">>} \cup
                           (IF h.worker THEN {<<h.id, "worker">>} ELSE {})
                           : h \in EverCreated}
             /\ Len(lastOp.order) = lastOp.issued
             /\ \A h \in EverCreated :
                  h.worker => Before(lastOp.order, <<h.id, "worker">>,
                                                   <<h.id, "queue">>))
  /\ [][(closeAllPc = "idle" /\ closeAllPc' = "awaiting")
          => \A i \in DOMAIN lastOp'.order :
               /\ closeOps'[lastOp'.order[i]] = "pending"
               /\ closeCalls'[lastOp'.order[i]]
                    = closeCalls[lastOp'.order[i]] + 1]_vars
  /\ [](closeAllPc = "done"
          => \A h \in EverCreated :
               /\ closeCalls[<<h.id, "queue">>] >= 1
               /\ h.worker => closeCalls[<<h.id, "worker">>] >= 1)

\* closeAll() has completed after closing a handle with a worker and a
\* handle without one.
ClosedWorkerAndPlainHandle ==
  /\ closeAllPc = "done"
  /\ \E g, h \in EverCreated :
       /\ g.worker /\ ~h.worker
       /\ closeCalls[<<g.id, "worker">>] = 1
       /\ closeCalls[<<g.id, "queue">>] = 1
       /\ closeCalls[<<h.id, "queue">>] = 1

\* ------------------------------------------------------------------ C33

\* The listeners the sessions in S have attached to source src.
RECURSIVE ListenersOn(_, _)
ListenersOn(S, src) ==
  IF S = {} THEN 0
  ELSE LET s == CHOOSE t \in S : TRUE
       IN (IF sess[s].source = src THEN sess[s].attached ELSE 0)
          + ListenersOn(S \ {s}, src)

\* The sessions that hold a reference to source src.
AttachedTo(src) == {s \in Sessions : sess[s].source = src /\ sess[s].holds}

\* C33: the listeners on a shared source number one per event type for
\* each session attached to it, a session detaches all of its listeners
\* before it releases its reference, and no source is closed while a
\* listener of a session is attached to it.
SixListenersPerSession ==
  \A src \in Sources :
    /\ ListenersOn(Sessions, src)
         = Len(eventTypes) * Cardinality(AttachedTo(src))
    /\ \A s \in Sessions :
         (sess[s].source = src /\ ~sess[s].holds) => sess[s].attached = 0
    /\ sourceState[src] \in {"closing", "closed"}
         => ListenersOn(Sessions, src) = 0

\* ------------------------------------------------------------------ C34

\* C34: a tick that runs to its end replaces the baseline by the counts it
\* read; the prev of every delta frame is the count of the previous delta
\* frame of the same state in the session, or the initial baseline for the
\* state's first frame; and between ticks the baseline of each state is
\* the count last reported for it, so a change is reported in one tick
\* and not again.
BaselineFollowsReportedCounts ==
  /\ poll.tick = "complete" => poll.lastCounts = poll.counts
  /\ \A i \in DOMAIN poll.tickFrames :
       poll.tickFrames[i].prev = poll.tickLast[i]
  /\ poll.pc \in {"sleeping", "reading"} => poll.lastCounts = poll.reported

\* The second delta frame of a state has been written in a later tick: its
\* prev is the count the first one carried, not the initial baseline.
SecondFrameOfOneState ==
  /\ poll.tick = "complete"
  /\ poll.ticks >= 2
  /\ poll.eventId = 2
  /\ Len(poll.tickFrames) = 1
  /\ poll.tickFrames[1].prev # InitialBaseline(poll.openCounts)[1]
  /\ poll.tickFrames[1].prev = poll.tickLast[1]
  /\ poll.tickFrames[1].state = CountStates[1]

\* ------------------------------------------------------------------ C35

\* The ids of the frames of session record r that reached the client: those
\* written, less the lost ones and the heartbeat whose write is pending.
DeliveredIds(r) ==
  {r.frames[i].id : i \in DOMAIN r.frames}
    \ (r.lost \cup (IF r.pc = "writing"
                     THEN {r.frames[Len(r.frames)].id} ELSE {}))

\* C35: the ids of the frames delivered to the client of a session are
\* consecutive from 0: the delivered frames with an id below that of a
\* delivered frame are as many as that id, even when a frame write has
\* failed.
DeliveredIdsConsecutive ==
  \A s \in Sessions :
    sess[s].pc \in {"sleeping", "done"} =>
      \A d \in DeliveredIds(sess[s]) :
        Cardinality({e \in DeliveredIds(sess[s]) : e < d}) = d

\* ------------------------------------------------------------------ C36

\* C36: the QueueEvents an acquire call returns was constructed with the
\* connection and prefix that call was given, whatever acquires and
\* releases came before.
SourceBuiltAsAsked ==
  \A src \in Sources :
    sourceOpts[src].asked # ""
      => sourceOpts[src].built = sourceOpts[src].asked

\* ------------------------------------------------------------------ C37

\* C37: no step of closeAll() changes the subscription map, a refCount, a
\* shared QueueEvents or a live session; whether or not the registry is
\* closed, each entry's refCount counts the sessions holding it, and a
\* session that has ended has released its reference once.
CloseAllLeavesSubscriptions ==
  /\ [][regVars' # regVars
          => UNCHANGED <<subscriptions, sourceState, sourceCloses, sess>>]_vars
  /\ [](\A n \in DOMAIN subscriptions :
          subscriptions[n].refCount = Cardinality(Holders(n)))
  /\ [](\A s \in Sessions : sess[s].pc = "done" => sess[s].releases = 1)

\* closeAll() has completed; a session is still streaming on its source,
\* which is open and counted once, and another has ended and released.
StreamingAfterCloseAll ==
  /\ closeAllPc = "done"
  /\ closeCalls[<<1, "queue">>] = 1
  /\ \E s, t \in Sessions :
       /\ sess[s].pc = "done" /\ sess[s].releases = 1
       /\ Streaming(t) /\ sess[t].holds
       /\ sess[t].name \in DOMAIN subscriptions
       /\ subscriptions[sess[t].name].refCount = 1
       /\ sourceState[sess[t].source] = "open"

\* ------------------------------------------------------------------ C38

\* The names whose entry in the subscription map stores source src.
NamesOf(src) ==
  {n \in DOMAIN subscriptions : subscriptions[n].queueEvents = src}

\* C38: every QueueEvents the multiplexer has constructed and not started
\* to close is stored in the subscription map under exactly one name, every
\* entry of the map stores such a source, and sessions holding references
\* for different names hold different sources.
OneOpenSourcePerName ==
  /\ \A src \in Sources :
       sourceState[src] = "open" <=> Cardinality(NamesOf(src)) = 1
  /\ \A src \in Sources : Cardinality(NamesOf(src)) <= 1
  /\ \A n \in DOMAIN subscriptions : subscriptions[n].queueEvents \in Sources
  /\ \A s, t \in Sessions :
       (sess[s].holds /\ sess[t].holds /\ sess[s].name # sess[t].name)
         => sess[s].source # sess[t].source

\* A name is on its second source: the first one, which an ended session
\* used, is being closed or closed, and the one in the map is open and held
\* by a session.
SecondSourceForName ==
  \E s, t \in Sessions :
    /\ sess[s].pc = "done" /\ sess[t].holds
    /\ sess[s].name = sess[t].name
    /\ sess[s].source # sess[t].source
    /\ sourceState[sess[s].source] \in {"closing", "closed"}
    /\ sourceState[sess[t].source] = "open"
    /\ subscriptions[sess[t].name].queueEvents = sess[t].source

====
